---- MODULE Spec2Model ----
(***************************************************************************)
(* Pixhawk -> Raspberry Pi -> Parrot Sequoia capture trigger               *)
(* (src/Sequoia.py, class PixhawkSequoiaTrigger).                          *)
(*                                                                         *)
(* Contexts that run Python code concurrently:                             *)
(*   "gpio"  the RPi.GPIO notification thread, which calls                 *)
(*           pixhawk_trigger_callback for every detected rising edge;      *)
(*   "main"  the session loop, whose 't' command calls the same callback   *)
(*           through test_trigger;                                         *)
(*   one capture worker thread per dispatched execute_capture;             *)
(*   one blink thread per pattern started by blink_status_led.             *)
(* Every access to a shared field is a step of its own: an augmented       *)
(* assignment x += 1 is a load followed by a store, and the other threads  *)
(* may run between the two.  Times are in milliseconds.                    *)
(*                                                                         *)
(* Specifications:                                                         *)
(*   Spec           the session after construction: edges, 't' commands    *)
(*                  and capture attempts (SpecLive, SpecCallback: the same *)
(*                  under fairness of the workers, of the callbacks);      *)
(*   SpecSession    Spec with the 's' command and the ways out of the      *)
(*                  session loop: get_statistics, save_statistics, cleanup;*)
(*   SpecStartup    setup_gpio and test_camera_connection with their       *)
(*                  failures, followed by the session;                     *)
(*   SpecIndicator  Spec with the blink threads, which write nothing but   *)
(*                  the status pin, followed write by write.               *)
(***************************************************************************)
EXTENDS Integers, Sequences, FiniteSets, TLC

\* ---------------------------------------------------------------- bounds
MaxEdges == 3        \* callbacks invoked in one behaviour
MaxWorkers == 2      \* capture threads alive at the same time
MaxPatterns == 2     \* callbacks invoked where the blink threads are followed

\* ------------------------------------------------------ program constants
DebounceTime == 100      \* self.debounce_time = 0.1 s
CaptureTimeout == 30000  \* self.capture_timeout = 30 s
BounceTime == 100        \* GPIO.add_event_detect(..., bouncetime=100)
TestSleep == 3000        \* time.sleep(3) in test_trigger

\* ------------------------------------------------------------ environment
\* time.time() at construction: the Unix epoch is far more than
\* debounce_time behind, so the first edge always passes the debounce test.
StartTime == 10 * DebounceTime

\* Durations of the external gphoto2 command.
ShortCommand == DebounceTime \div 2
LongCommand == CaptureTimeout + CaptureTimeout \div 3

\* The instants at which some context is scheduled: the start, the end of
\* the debounce window of an edge seen at the start, and the deadline of a
\* command started at the start.  Edges seen at the same instant are inside
\* each other's debounce window.
Offsets == {0, DebounceTime, CaptureTimeout}

Times == {StartTime + o : o \in Offsets}

MaxTime == StartTime + CaptureTimeout

Contexts == {"gpio", "main"}

Workers == 1..MaxWorkers

Counters == {"total_triggers", "successful_captures", "failed_captures"}

\* What the external command does: exit status 0, nonzero exit status,
\* running past the timeout, or subprocess.run failing to start it.
CommandKinds == {"exit0", "exit1", "hang", "oserror"}

Min(a, b) == IF a < b THEN a ELSE b

Duration(k) == IF k = "hang" THEN LongCommand ELSE ShortCommand

VARIABLES
  now,                \* time.time()
  last_trigger_time,  \* self.last_trigger_time
  is_capturing,       \* self.is_capturing
  stats,              \* self.stats counters
  led,                \* level of the status LED pin
  gpio_lastcall,      \* RPi.GPIO's time of the last callback on the pin
  cpc,                \* position of each context in the callback
  current_time,       \* local current_time of the callback
  ctmp,               \* value loaded by stats['total_triggers'] += 1
  test_wake,          \* end of time.sleep(3) in test_trigger
  wpc,                \* position of each capture worker
  trigger_number,     \* argument of execute_capture
  cmd,                \* behaviour of the external command of the attempt
  cmd_start,          \* time at which subprocess.run was entered
  branch,             \* branch of execute_capture the attempt is in
  wtmp,               \* value loaded by stats[...] += 1 in the worker
  file_size,          \* outcome of os.path.getsize(filepath) in the attempt
  edges,              \* history: callbacks invoked
  accepted,           \* history: edges that passed the debounce test
  rejected,           \* history: accepted edges returned as busy
  used,               \* history: trigger numbers of the dispatched attempts
  finished,           \* history: attempts that ran to their end
  cdelta,             \* history: change of total_triggers made by the edge
  incs,               \* history: increments stored by the current attempt
  mpc,                \* position of the main thread outside the callback
  caller,             \* what called get_statistics: print_status or save_statistics
  shutdown,           \* why the session loop was left
  s_read,             \* stats['successful_captures'] as read at line 257
  success_rate,       \* local success_rate of get_statistics
  snapshot,           \* the dictionary get_statistics returns
  stats_file,         \* content of session_stats.json
  persisted,          \* history: how json.dump in save_statistics ended
  released,           \* history: GPIO.cleanup() has run
  status_pin,         \* the status LED pin: an output, absent, or not set up
  detect,             \* edge detection is registered on the trigger pin
  camera,             \* history: how test_camera_connection ended
  blink               \* blink threads: how many have n writes of the pin left

shared == <<now, last_trigger_time, is_capturing, stats, led, gpio_lastcall>>
cbvars == <<cpc, current_time, ctmp, test_wake>>
wkvars == <<wpc, trigger_number, cmd, cmd_start, branch, wtmp, file_size>>
hist == <<edges, accepted, rejected, used, finished, cdelta, incs>>
mainvars == <<mpc, caller, shutdown, s_read, success_rate, snapshot, stats_file, persisted, released>>
hwvars == <<status_pin, detect, camera>>
ext == <<mainvars, hwvars, blink>>
vars == <<shared, cbvars, wkvars, hist, ext>>

NoIncs == [k \in Counters |-> 0]

NoSnapshot == <<>>

\* The main thread is at position p, no statistics read is under way.
MainAt(p) ==
  /\ mpc = p
  /\ caller = "none"
  /\ shutdown = "none"
  /\ s_read = 0
  /\ success_rate = <<0, 1>>
  /\ snapshot = NoSnapshot
  /\ stats_file = <<>>
  /\ persisted = "none"
  /\ released = FALSE

\* The number of blinks of the pattern started by each branch of
\* execute_capture: blink_status_led(1, 0.1) for a success, (3, 0.1) for a
\* failure, (5, 0.1) for a timeout, (3, 0.1) for another exception.
BlinkTimes(b) ==
  CASE b = "success" -> 1
    [] b = "failed" -> 3
    [] b = "timeout" -> 5
    [] OTHER -> 3

\* Writes of the status pin a blink thread can have left: two for each blink.
BlinkWrites == 1..(2 * BlinkTimes("timeout"))

NoBlink == [n \in BlinkWrites |-> 0]

\* setup_gpio has set up both pins and registered the edge detection.
PinsReady ==
  /\ status_pin = "output"
  /\ detect = TRUE

\* The fields set by __init__ (lines 59-75).
Constructed ==
  /\ now = StartTime
  /\ last_trigger_time = 0
  /\ is_capturing = FALSE
  /\ stats = [k \in Counters |-> 0]
  /\ led = FALSE
  /\ gpio_lastcall = 0
  /\ cpc = [c \in Contexts |-> "idle"]
  /\ current_time = [c \in Contexts |-> 0]
  /\ ctmp = [c \in Contexts |-> 0]
  /\ test_wake = 0
  /\ wpc = [w \in Workers |-> "idle"]
  /\ trigger_number = [w \in Workers |-> 0]
  /\ cmd = [w \in Workers |-> "none"]
  /\ cmd_start = [w \in Workers |-> 0]
  /\ branch = [w \in Workers |-> "none"]
  /\ wtmp = [w \in Workers |-> 0]
  /\ file_size = [w \in Workers |-> "none"]
  /\ edges = 0
  /\ accepted = 0
  /\ rejected = 0
  /\ used = {}
  /\ finished = 0
  /\ cdelta = [c \in Contexts |-> 0]
  /\ incs = [w \in Workers |-> NoIncs]
  /\ blink = NoBlink

\* The state after construction by main(): both pins are set up, the camera
\* was detected, and the main thread is in the session loop.
Init ==
  /\ Constructed
  /\ MainAt("loop")
  /\ PinsReady
  /\ camera = "detected"

\* ------------------------------------------------------------------ clock
Tick ==
  /\ \E t \in Times : t > now /\ now' = t
  /\ UNCHANGED <<last_trigger_time, is_capturing, stats, led, gpio_lastcall>>
  /\ UNCHANGED <<cbvars, wkvars, hist>>
  /\ UNCHANGED ext

\* --------------------------------------------------------------- callback
InCallback(c) == cpc[c] \notin {"idle", "sleep"}

InFlight(w) == wpc[w] # "idle"

\* A thread slot is left for every callback that may still dispatch.
SlotLeft ==
  Cardinality({w \in Workers : InFlight(w)})
    + Cardinality({c \in Contexts : InCallback(c)}) < MaxWorkers

\* A rising edge on the trigger pin: RPi.GPIO runs the callback unless the
\* edge is within bouncetime of the previous callback.  The callback begins
\* with current_time = time.time().
GpioEdge ==
  /\ detect
  /\ cpc["gpio"] = "idle"
  /\ edges < MaxEdges
  /\ SlotLeft
  /\ gpio_lastcall = 0 \/ now - gpio_lastcall > BounceTime
  /\ gpio_lastcall' = now
  /\ current_time' = [current_time EXCEPT !["gpio"] = now]
  /\ cpc' = [cpc EXCEPT !["gpio"] = "L148"]
  /\ edges' = edges + 1
  /\ UNCHANGED <<now, last_trigger_time, is_capturing, stats, led>>
  /\ UNCHANGED <<ctmp, test_wake, wkvars>>
  /\ UNCHANGED <<accepted, rejected, used, finished, cdelta, incs>>
  /\ UNCHANGED ext

\* The 't' command of the session loop: test_trigger calls the callback.
TestTrigger ==
  /\ mpc = "loop"
  /\ cpc["main"] = "idle"
  /\ edges < MaxEdges
  /\ SlotLeft
  /\ current_time' = [current_time EXCEPT !["main"] = now]
  /\ cpc' = [cpc EXCEPT !["main"] = "L148"]
  /\ edges' = edges + 1
  /\ UNCHANGED <<shared, ctmp, test_wake, wkvars>>
  /\ UNCHANGED <<accepted, rejected, used, finished, cdelta, incs>>
  /\ UNCHANGED ext

\* Where a context goes when the callback returns.
Returned(c) == IF c = "main" THEN "sleep" ELSE "idle"

WakeAfterReturn(c) == IF c = "main" THEN now + TestSleep ELSE test_wake

Bounced(c) == current_time[c] - last_trigger_time < DebounceTime

\* Mutant of CbDebounce: the discarded edge restarts the debounce window.
CbDebounceM(c) ==
  /\ cpc[c] = "L148"
  /\ IF Bounced(c)
       THEN /\ cpc' = [cpc EXCEPT ![c] = Returned(c)]
            /\ test_wake' = WakeAfterReturn(c)
            /\ last_trigger_time' = current_time[c]
            /\ current_time' = [current_time EXCEPT ![c] = 0]
            /\ accepted' = accepted
       ELSE /\ cpc' = [cpc EXCEPT ![c] = "L151"]
            /\ accepted' = accepted + 1
            /\ UNCHANGED <<test_wake, current_time, last_trigger_time>>
  /\ UNCHANGED <<now, is_capturing, stats, led, gpio_lastcall>>
  /\ UNCHANGED <<ctmp, wkvars>>
  /\ UNCHANGED <<edges, rejected, used, finished, cdelta, incs>>
  /\ UNCHANGED ext

\* if current_time - self.last_trigger_time < self.debounce_time: return
CbDebounce(c) ==
  /\ cpc[c] = "L148"
  /\ IF Bounced(c)
       THEN /\ cpc' = [cpc EXCEPT ![c] = Returned(c)]
            /\ test_wake' = WakeAfterReturn(c)
            /\ current_time' = [current_time EXCEPT ![c] = 0]
            /\ accepted' = accepted
       ELSE /\ cpc' = [cpc EXCEPT ![c] = "L151"]
            /\ accepted' = accepted + 1
            /\ UNCHANGED <<test_wake, current_time>>
  /\ UNCHANGED <<shared, ctmp, wkvars>>
  /\ UNCHANGED <<edges, rejected, used, finished, cdelta, incs>>
  /\ UNCHANGED ext

\* self.last_trigger_time = current_time
CbSetLast(c) ==
  /\ cpc[c] = "L151"
  /\ last_trigger_time' = current_time[c]
  /\ current_time' = [current_time EXCEPT ![c] = 0]
  /\ cpc' = [cpc EXCEPT ![c] = "L152r"]
  /\ UNCHANGED <<now, is_capturing, stats, led, gpio_lastcall>>
  /\ UNCHANGED <<ctmp, test_wake, wkvars, hist>>
  /\ UNCHANGED ext

\* self.stats['total_triggers'] += 1, the load
CbLoadTotal(c) ==
  /\ cpc[c] = "L152r"
  /\ ctmp' = [ctmp EXCEPT ![c] = stats["total_triggers"]]
  /\ cpc' = [cpc EXCEPT ![c] = "L152w"]
  /\ UNCHANGED <<shared, current_time, test_wake, wkvars, hist>>
  /\ UNCHANGED ext

\* self.stats['total_triggers'] += 1, the store
CbStoreTotal(c) ==
  /\ cpc[c] = "L152w"
  /\ stats' = [stats EXCEPT !["total_triggers"] = ctmp[c] + 1]
  /\ cdelta' = [cdelta EXCEPT ![c] = ctmp[c] + 1 - stats["total_triggers"]]
  /\ cpc' = [cpc EXCEPT ![c] = "L154"]
  /\ UNCHANGED <<now, last_trigger_time, is_capturing, led, gpio_lastcall>>
  /\ UNCHANGED <<current_time, ctmp, test_wake, wkvars>>
  /\ UNCHANGED <<edges, accepted, rejected, used, finished, incs>>
  /\ UNCHANGED ext

\* Mutant of CbCheckBusy: the busy branch logs the warning but does not return.
CbCheckBusyM(c) ==
  /\ cpc[c] = "L154"
  /\ cpc' = [cpc EXCEPT ![c] = "L161"]
  /\ rejected' = IF is_capturing THEN rejected + 1 ELSE rejected
  /\ UNCHANGED <<shared, current_time, ctmp, test_wake, wkvars>>
  /\ UNCHANGED <<edges, accepted, used, finished, cdelta, incs>>
  /\ UNCHANGED ext

\* if self.is_capturing: ... return
CbCheckBusy(c) ==
  /\ cpc[c] = "L154"
  /\ IF is_capturing
       THEN /\ cpc' = [cpc EXCEPT ![c] = Returned(c)]
            /\ test_wake' = WakeAfterReturn(c)
            /\ ctmp' = [ctmp EXCEPT ![c] = 0]
            /\ cdelta' = [cdelta EXCEPT ![c] = 0]
            /\ rejected' = rejected + 1
       ELSE /\ cpc' = [cpc EXCEPT ![c] = "L161"]
            /\ UNCHANGED <<test_wake, ctmp, cdelta, rejected>>
  /\ UNCHANGED <<shared, current_time, wkvars>>
  /\ UNCHANGED <<edges, accepted, used, finished, incs>>
  /\ UNCHANGED ext

FreeWorker == CHOOSE w \in Workers : ~InFlight(w) /\ \A v \in Workers : ~InFlight(v) => w <= v

\* set_status_led(state) does nothing without a status pin, calls GPIO.output
\* on a pin set up as an output, and gets RuntimeError from GPIO.output on a
\* pin that was not set up.
PinRaises == status_pin = "unclaimed"

\* The level of the status pin after set_status_led(state).
PinLevel(state) == IF status_pin = "output" THEN state ELSE led

\* Mutant of CbDispatch: the callback joins the thread it has started.
CbDispatchM(c) ==
  /\ cpc[c] = "L161"
  /\ led' = TRUE
  /\ \E w \in Workers : ~InFlight(w)
  /\ wpc' = [wpc EXCEPT ![FreeWorker] = "L173"]
  /\ trigger_number' = [trigger_number EXCEPT ![FreeWorker] = stats["total_triggers"]]
  /\ used' = used \cup {stats["total_triggers"]}
  /\ cpc' = [cpc EXCEPT ![c] = "join"]
  /\ UNCHANGED <<now, last_trigger_time, is_capturing, stats, gpio_lastcall>>
  /\ UNCHANGED <<current_time, ctmp, test_wake, cmd, cmd_start, branch, wtmp, file_size>>
  /\ UNCHANGED <<edges, accepted, rejected, finished, cdelta, incs>>
  /\ UNCHANGED ext

\* self.set_status_led(True)
\* threading.Thread(target=self.execute_capture,
\*                  args=(self.stats['total_triggers'],)).start()
\* An exception of set_status_led leaves the callback: in the main thread it
\* leaves test_trigger and is dropped by the bare except of the session loop.
CbDispatch(c) ==
  /\ cpc[c] = "L161"
  /\ IF PinRaises
       THEN /\ cpc' = [cpc EXCEPT ![c] = "idle"]
            /\ UNCHANGED <<led, wpc, trigger_number, used, test_wake>>
       ELSE /\ led' = PinLevel(TRUE)
            /\ \E w \in Workers : ~InFlight(w)
            /\ wpc' = [wpc EXCEPT ![FreeWorker] = "L173"]
            /\ trigger_number' = [trigger_number EXCEPT ![FreeWorker] = stats["total_triggers"]]
            /\ used' = used \cup {stats["total_triggers"]}
            /\ cpc' = [cpc EXCEPT ![c] = Returned(c)]
            /\ test_wake' = WakeAfterReturn(c)
  /\ ctmp' = [ctmp EXCEPT ![c] = 0]
  /\ cdelta' = [cdelta EXCEPT ![c] = 0]
  /\ UNCHANGED <<now, last_trigger_time, is_capturing, stats, gpio_lastcall>>
  /\ UNCHANGED <<current_time, cmd, cmd_start, branch, wtmp, file_size>>
  /\ UNCHANGED <<edges, accepted, rejected, finished, incs>>
  /\ UNCHANGED ext

\* test_trigger after the callback: time.sleep(3), then
\* while trigger_system.is_capturing: time.sleep(1)
TestTriggerWait ==
  /\ cpc["main"] = "sleep"
  /\ now >= test_wake
  /\ ~is_capturing
  /\ cpc' = [cpc EXCEPT !["main"] = "idle"]
  /\ test_wake' = 0
  /\ UNCHANGED <<shared, current_time, ctmp, wkvars, hist>>
  /\ UNCHANGED ext

\* ----------------------------------------------------------- execute_capture
\* The command can end, or its timeout can fire, within the modelled time.
CanEnd(k) == now + Min(Duration(k), CaptureTimeout) <= MaxTime

\* self.is_capturing = True, then subprocess.run([...],
\* timeout=self.capture_timeout) is entered; a command that cannot be started
\* raises at once and is handled by except Exception.
WStart(w) ==
  /\ wpc[w] = "L173"
  /\ is_capturing' = TRUE
  /\ \E k \in CommandKinds :
       /\ k # "oserror" => CanEnd(k)
       /\ cmd' = [cmd EXCEPT ![w] = k]
       /\ IF k = "oserror"
            THEN /\ branch' = [branch EXCEPT ![w] = "error"]
                 /\ wpc' = [wpc EXCEPT ![w] = "inc_r"]
                 /\ UNCHANGED cmd_start
            ELSE /\ cmd_start' = [cmd_start EXCEPT ![w] = now]
                 /\ wpc' = [wpc EXCEPT ![w] = "L185"]
                 /\ UNCHANGED branch
  /\ UNCHANGED <<now, last_trigger_time, stats, led, gpio_lastcall>>
  /\ UNCHANGED <<cbvars, trigger_number, wtmp, file_size, hist>>
  /\ UNCHANGED ext

\* The branch of execute_capture taken for a command that was started.
Classify(k) ==
  IF Duration(k) > CaptureTimeout THEN "timeout"
  ELSE IF k = "exit0" THEN "success"
  ELSE "failed"

\* subprocess.run returns, or raises TimeoutExpired at the deadline.
WCmdEnd(w) ==
  /\ wpc[w] = "L185"
  /\ now >= cmd_start[w] + Min(Duration(cmd[w]), CaptureTimeout)
  /\ branch' = [branch EXCEPT ![w] = Classify(cmd[w])]
  /\ cmd_start' = [cmd_start EXCEPT ![w] = 0]
  /\ wpc' = [wpc EXCEPT ![w] = "inc_r"]
  /\ UNCHANGED <<shared, cbvars, trigger_number, cmd, wtmp, file_size, hist>>
  /\ UNCHANGED ext

\* The counter each branch increments.
CounterOf(b) == IF b = "success" THEN "successful_captures" ELSE "failed_captures"

\* self.stats[...] += 1, the load
WLoadStat(w) ==
  /\ wpc[w] = "inc_r"
  /\ wtmp' = [wtmp EXCEPT ![w] = stats[CounterOf(branch[w])]]
  /\ wpc' = [wpc EXCEPT ![w] = "inc_w"]
  /\ UNCHANGED <<shared, cbvars, trigger_number, cmd, cmd_start, branch, file_size, hist>>
  /\ UNCHANGED ext

\* blink_status_led(times, delay): nothing without a status pin; otherwise a
\* thread is started that writes the pin 2 * times times.  On a pin that was
\* not set up its first write raises and ends the thread.
Started(times) ==
  IF status_pin = "output" THEN [blink EXCEPT ![2 * times] = @ + 1] ELSE blink

\* self.stats[...] += 1, the store; the success branch goes on to read the
\* size of the file, the other branches call self.blink_status_led(n, 0.1),
\* which starts its thread and returns.
StoreStat(w) ==
  /\ wpc[w] = "inc_w"
  /\ stats' = [stats EXCEPT ![CounterOf(branch[w])] = wtmp[w] + 1]
  /\ incs' = [incs EXCEPT ![w][CounterOf(branch[w])] = @ + 1]
  /\ wtmp' = [wtmp EXCEPT ![w] = 0]
  /\ wpc' = [wpc EXCEPT ![w] = IF branch[w] = "success" THEN "L201" ELSE "L230"]
  /\ UNCHANGED <<now, last_trigger_time, is_capturing, led, gpio_lastcall>>
  /\ UNCHANGED <<cbvars, trigger_number, cmd, cmd_start, branch, file_size>>
  /\ UNCHANGED <<edges, accepted, rejected, used, finished, cdelta>>
  /\ UNCHANGED <<mainvars, hwvars>>

\* StoreStat where the blink threads are not followed.
WStoreStat(w) == StoreStat(w) /\ UNCHANGED blink

\* StoreStat with the blink thread it starts.
WStoreStatBlink(w) ==
  /\ StoreStat(w)
  /\ blink' = IF branch[w] = "success" THEN blink ELSE Started(BlinkTimes(branch[w]))

\* What os.path.getsize(filepath) does: it returns the size, or raises
\* because the file is missing or unreadable.
SizeOutcomes == {"ok", "raise"}

\* Mutant of WGetSize: the size is read outside the inner try, so that a
\* failure reaches except Exception of the attempt.
WGetSizeM(w) ==
  /\ wpc[w] = "L201"
  /\ \E r \in SizeOutcomes :
       /\ file_size' = [file_size EXCEPT ![w] = r]
       /\ IF r = "raise"
            THEN /\ branch' = [branch EXCEPT ![w] = "error"]
                 /\ wpc' = [wpc EXCEPT ![w] = "inc_r"]
            ELSE /\ wpc' = [wpc EXCEPT ![w] = "L230"]
                 /\ UNCHANGED branch
  /\ UNCHANGED <<shared, cbvars, trigger_number, cmd, cmd_start, wtmp, hist>>
  /\ UNCHANGED ext

\* try: file_size = os.path.getsize(filepath) / 1024 / 1024; logger.info(...)
\* except: logger.info(...)
\* and then self.blink_status_led(1, 0.1).
GetSize(w) ==
  /\ wpc[w] = "L201"
  /\ \E r \in SizeOutcomes : file_size' = [file_size EXCEPT ![w] = r]
  /\ wpc' = [wpc EXCEPT ![w] = "L230"]
  /\ UNCHANGED <<shared, cbvars, trigger_number, cmd, cmd_start, branch, wtmp, hist>>
  /\ UNCHANGED <<mainvars, hwvars>>

\* GetSize where the blink threads are not followed.
WGetSize(w) == GetSize(w) /\ UNCHANGED blink

\* GetSize with the blink thread it starts.
WGetSizeBlink(w) == GetSize(w) /\ blink' = Started(BlinkTimes("success"))

\* Mutant of WRelease: the finally clause does not reset the latch.
WReleaseM(w) ==
  /\ wpc[w] = "L230"
  /\ wpc' = [wpc EXCEPT ![w] = "L231"]
  /\ UNCHANGED <<shared, cbvars, trigger_number, cmd, cmd_start, branch, wtmp, file_size, hist>>
  /\ UNCHANGED ext

\* finally: self.is_capturing = False
WRelease(w) ==
  /\ wpc[w] = "L230"
  /\ is_capturing' = FALSE
  /\ wpc' = [wpc EXCEPT ![w] = "L231"]
  /\ UNCHANGED <<now, last_trigger_time, stats, led, gpio_lastcall>>
  /\ UNCHANGED <<cbvars, trigger_number, cmd, cmd_start, branch, wtmp, file_size, hist>>
  /\ UNCHANGED ext

\* finally: self.set_status_led(False); the thread ends.
WLedOff(w) ==
  /\ wpc[w] = "L231"
  /\ led' = PinLevel(FALSE)
  /\ wpc' = [wpc EXCEPT ![w] = "idle"]
  /\ trigger_number' = [trigger_number EXCEPT ![w] = 0]
  /\ cmd' = [cmd EXCEPT ![w] = "none"]
  /\ cmd_start' = [cmd_start EXCEPT ![w] = 0]
  /\ branch' = [branch EXCEPT ![w] = "none"]
  /\ file_size' = [file_size EXCEPT ![w] = "none"]
  /\ incs' = [incs EXCEPT ![w] = NoIncs]
  /\ finished' = finished + 1
  /\ UNCHANGED <<now, last_trigger_time, is_capturing, stats, gpio_lastcall>>
  /\ UNCHANGED <<cbvars, wtmp, edges, accepted, rejected, used, cdelta>>
  /\ UNCHANGED ext

\* ----------------------------------------------------------- blink threads
\* Mutant of BlinkWrite: each blink drives the pin low first and high second.
BlinkWriteM ==
  /\ \E n \in BlinkWrites :
       /\ blink[n] > 0
       /\ led' = (n % 2 = 1)
       /\ blink' = [m \in BlinkWrites |->
                      IF m = n THEN blink[m] - 1
                      ELSE IF m = n - 1 THEN blink[m] + 1
                      ELSE blink[m]]
  /\ UNCHANGED <<now, last_trigger_time, is_capturing, stats, gpio_lastcall>>
  /\ UNCHANGED <<cbvars, wkvars, hist, mainvars, hwvars>>

\* One write of a blink thread: for _ in range(times): GPIO.output(pin, HIGH);
\* time.sleep(delay); GPIO.output(pin, LOW); time.sleep(delay).  A thread with
\* an even number of writes left drives the pin high, one with an odd number
\* drives it low.
BlinkWrite ==
  /\ \E n \in BlinkWrites :
       /\ blink[n] > 0
       /\ led' = (n % 2 = 0)
       /\ blink' = [m \in BlinkWrites |->
                      IF m = n THEN blink[m] - 1
                      ELSE IF m = n - 1 THEN blink[m] + 1
                      ELSE blink[m]]
  /\ UNCHANGED <<now, last_trigger_time, is_capturing, stats, gpio_lastcall>>
  /\ UNCHANGED <<cbvars, wkvars, hist, mainvars, hwvars>>

\* ---------------------------------------------------------------- startup
\* The state in which __init__ is about to call setup_gpio: the status pin is
\* a pin number not yet set up, or no pin at all.
InitStartup ==
  /\ Constructed
  /\ MainAt("L79")
  /\ status_pin \in {"unclaimed", "absent"}
  /\ detect = FALSE
  /\ camera = "none"

\* What GPIO.setup(self.status_led_pin, GPIO.OUT) does.
SetupOutcomes == {"ok", "raise"}

\* setup_gpio: the status pin, if there is one, is set up as an output and
\* driven low, and then the edge detection is registered; an exception of
\* any of these calls ends setup_gpio in except Exception (line 115).
SetupGpio ==
  /\ mpc = "L79"
  /\ IF status_pin = "absent"
       THEN /\ detect' = TRUE
            /\ UNCHANGED <<status_pin, led>>
       ELSE \E r \in SetupOutcomes :
              IF r = "ok"
                THEN /\ status_pin' = "output"
                     /\ led' = FALSE
                     /\ detect' = TRUE
                ELSE UNCHANGED <<status_pin, led, detect>>
  /\ mpc' = "L80"
  /\ UNCHANGED <<now, last_trigger_time, is_capturing, stats, gpio_lastcall>>
  /\ UNCHANGED <<caller, shutdown, s_read, success_rate, snapshot, stats_file, persisted, released>>
  /\ UNCHANGED <<cbvars, wkvars, hist, camera, blink>>

\* What gphoto2 --auto-detect does: it lists the camera, it lists none, it
\* runs past its timeout of 10 s, or it cannot be run.
CameraOutcomes == {"detected", "absent", "timeout", "error"}

\* Mutant of TestCamera: the timeout of the check is not caught.
TestCameraM ==
  /\ mpc = "L80"
  /\ \E r \in CameraOutcomes :
       /\ camera' = r
       /\ mpc' = IF r = "timeout" THEN "exited" ELSE "loop"
  /\ UNCHANGED <<caller, shutdown, s_read, success_rate, snapshot, stats_file, persisted, released>>
  /\ UNCHANGED <<shared, cbvars, wkvars, hist, status_pin, detect, blink>>

\* test_camera_connection: every outcome is logged and returns, and __init__
\* ignores the result.
TestCamera ==
  /\ mpc = "L80"
  /\ \E r \in CameraOutcomes : camera' = r
  /\ mpc' = "loop"
  /\ UNCHANGED <<caller, shutdown, s_read, success_rate, snapshot, stats_file, persisted, released>>
  /\ UNCHANGED <<shared, cbvars, wkvars, hist, status_pin, detect, blink>>

\* ------------------------------------------------- statistics and shutdown
Max(a, b) == IF a > b THEN a ELSE b

RECURSIVE GCD(_, _)
GCD(a, b) == IF b = 0 THEN a ELSE GCD(b, a % b)

\* The number n / d as a fraction in lowest terms.
Fraction(n, d) == <<n \div GCD(n, d), d \div GCD(n, d)>>

\* Mutant of SuccessRate: division by zero is avoided by adding one.
SuccessRateM(s, t) == Fraction(s * 100, t + 1)

\* (self.stats['successful_captures'] / max(self.stats['total_triggers'], 1)) * 100
SuccessRate(s, t) == Fraction(s * 100, Max(t, 1))

\* The keys of the dictionary get_statistics returns, in its order.
SnapshotKeys ==
  <<"total_triggers", "successful_captures", "failed_captures", "success_rate_percent">>

\* json.dump: the key/value pairs in the order of the dictionary.
Dump(d) == [i \in DOMAIN SnapshotKeys |-> <<SnapshotKeys[i], d[SnapshotKeys[i]]>>]

\* json.load: the dictionary of the key/value pairs of the file.
Load(f) ==
  [k \in {f[i][1] : i \in DOMAIN f} |-> f[CHOOSE i \in DOMAIN f : f[i][1] = k][2]]

\* The main thread is in the session loop and not inside test_trigger.
AtPrompt == mpc = "loop" /\ cpc["main"] = "idle"

\* The 's' command, or the periodic report: print_status calls get_statistics.
StatusCommand ==
  /\ AtPrompt
  /\ mpc' = "L257s"
  /\ caller' = "print"
  /\ UNCHANGED <<shutdown, s_read, success_rate, snapshot, stats_file, persisted, released>>
  /\ UNCHANGED <<shared, cbvars, wkvars, hist, hwvars, blink>>

\* How the session loop is left: the 'q' command (break), KeyboardInterrupt,
\* or another exception raised in the loop.
ShutdownPaths == {"q", "int", "err"}

\* The loop is left.  'q' and an exception go to finally: cleanup(), which
\* calls save_statistics; KeyboardInterrupt calls print_status first.
Shutdown ==
  /\ AtPrompt
  /\ \E why \in ShutdownPaths :
       /\ shutdown' = why
       /\ caller' = IF why = "int" THEN "print" ELSE "save"
       /\ mpc' = IF why = "int" THEN "L257s" ELSE "L270"
  /\ UNCHANGED <<s_read, success_rate, snapshot, stats_file, persisted, released>>
  /\ UNCHANGED <<shared, cbvars, wkvars, hist, hwvars, blink>>

\* What an operation on the statistics file does.
FileOutcomes == {"ok", "raise"}

\* Mutant of OpenStatsFile: save_statistics without its try, so that a
\* failure to open the file leaves cleanup.
OpenStatsFileM ==
  /\ mpc = "L270"
  /\ \E r \in FileOutcomes :
       IF r = "ok"
         THEN /\ stats_file' = <<>>
              /\ mpc' = "L257s"
              /\ UNCHANGED persisted
         ELSE /\ persisted' = "failed"
              /\ mpc' = "exited"
              /\ UNCHANGED stats_file
  /\ UNCHANGED <<caller, shutdown, s_read, success_rate, snapshot, released>>
  /\ UNCHANGED <<shared, cbvars, wkvars, hist, hwvars, blink>>

\* save_statistics: with open(stats_file, 'w') as f, which truncates the
\* file; a failure is logged by except Exception and save_statistics returns.
OpenStatsFile ==
  /\ mpc = "L270"
  /\ \E r \in FileOutcomes :
       IF r = "ok"
         THEN /\ stats_file' = <<>>
              /\ mpc' = "L257s"
              /\ UNCHANGED persisted
         ELSE /\ persisted' = "failed"
              /\ mpc' = "L295"
              /\ UNCHANGED stats_file
  /\ UNCHANGED <<caller, shutdown, s_read, success_rate, snapshot, released>>
  /\ UNCHANGED <<shared, cbvars, wkvars, hist, hwvars, blink>>

\* get_statistics, line 257: the left operand of the division is read.
GetReadSuccessful ==
  /\ mpc = "L257s"
  /\ s_read' = stats["successful_captures"]
  /\ mpc' = "L257t"
  /\ UNCHANGED <<caller, shutdown, success_rate, snapshot, stats_file, persisted, released>>
  /\ UNCHANGED <<shared, cbvars, wkvars, hist, hwvars, blink>>

\* get_statistics, line 257: total_triggers is read and success_rate computed.
GetReadTotal ==
  /\ mpc = "L257t"
  /\ success_rate' = SuccessRate(s_read, stats["total_triggers"])
  /\ s_read' = 0
  /\ mpc' = "L260"
  /\ UNCHANGED <<caller, shutdown, snapshot, stats_file, persisted, released>>
  /\ UNCHANGED <<shared, cbvars, wkvars, hist, hwvars, blink>>

\* get_statistics, lines 259-264: the returned dictionary copies self.stats
\* and adds success_rate.
GetCopyStats ==
  /\ mpc = "L260"
  /\ snapshot' = [k \in {SnapshotKeys[i] : i \in DOMAIN SnapshotKeys} |->
                    IF k = "success_rate_percent" THEN success_rate ELSE stats[k]]
  /\ success_rate' = <<0, 1>>
  /\ mpc' = "ret"
  /\ UNCHANGED <<caller, shutdown, s_read, stats_file, persisted, released>>
  /\ UNCHANGED <<shared, cbvars, wkvars, hist, hwvars, blink>>

\* print_status prints the dictionary; after KeyboardInterrupt the finally
\* clause of main goes on to cleanup().
PrintStatus ==
  /\ mpc = "ret"
  /\ caller = "print"
  /\ snapshot' = NoSnapshot
  /\ IF shutdown = "int"
       THEN mpc' = "L270" /\ caller' = "save"
       ELSE mpc' = "loop" /\ caller' = "none"
  /\ UNCHANGED <<shutdown, s_read, success_rate, stats_file, persisted, released>>
  /\ UNCHANGED <<shared, cbvars, wkvars, hist, hwvars, blink>>

\* save_statistics: json.dump(self.get_statistics(), f, indent=2); a failure
\* is logged by except Exception and leaves no complete file.
WriteStatsFile ==
  /\ mpc = "ret"
  /\ caller = "save"
  /\ \E r \in FileOutcomes :
       IF r = "ok"
         THEN stats_file' = Dump(snapshot) /\ persisted' = "ok"
         ELSE stats_file' = <<>> /\ persisted' = "failed"
  /\ snapshot' = NoSnapshot
  /\ mpc' = "L295"
  /\ UNCHANGED <<caller, shutdown, s_read, success_rate, released>>
  /\ UNCHANGED <<shared, cbvars, wkvars, hist, hwvars, blink>>

\* cleanup: GPIO.cleanup(); main returns and the process ends, and with it
\* its daemon threads.
GpioCleanup ==
  /\ mpc = "L295"
  /\ released' = TRUE
  /\ detect' = FALSE
  /\ mpc' = "exited"
  /\ UNCHANGED <<caller, shutdown, s_read, success_rate, snapshot, stats_file, persisted>>
  /\ UNCHANGED <<shared, cbvars, wkvars, hist, status_pin, camera, blink>>

\* ---------------------------------------------------------- specification
Callback(c) ==
  \/ CbDebounce(c)
  \/ CbSetLast(c)
  \/ CbLoadTotal(c)
  \/ CbStoreTotal(c)
  \/ CbCheckBusy(c)
  \/ CbDispatch(c)

Capture(w) ==
  \/ WStart(w)
  \/ WCmdEnd(w)
  \/ WLoadStat(w)
  \/ WStoreStat(w)
  \/ WGetSize(w)
  \/ WRelease(w)
  \/ WLedOff(w)

Next ==
  \/ Tick
  \/ GpioEdge
  \/ TestTrigger
  \/ TestTriggerWait
  \/ \E c \in Contexts : Callback(c)
  \/ \E w \in Workers : Capture(w)

Spec == Init /\ [][Next]_vars

\* The scheduler runs every capture thread that can take a step, and time
\* passes.
Fairness == WF_vars(Tick) /\ \A w \in Workers : WF_vars(Capture(w))

SpecLive == Spec /\ Fairness

\* The scheduler runs every context that is inside the callback; nothing is
\* assumed of the capture threads, of the external command or of the clock.
CallbackFairness == \A c \in Contexts : WF_vars(Callback(c))

SpecCallback == Spec /\ CallbackFairness

\* execute_capture together with the blink threads it starts.
CaptureBlink(w) ==
  \/ WStart(w)
  \/ WCmdEnd(w)
  \/ WLoadStat(w)
  \/ WStoreStatBlink(w)
  \/ WGetSizeBlink(w)
  \/ WRelease(w)
  \/ WLedOff(w)

\* The session with the blink threads followed.
NextIndicator ==
  \/ Tick
  \/ edges < MaxPatterns /\ GpioEdge
  \/ edges < MaxPatterns /\ TestTrigger
  \/ TestTriggerWait
  \/ \E c \in Contexts : Callback(c)
  \/ \E w \in Workers : CaptureBlink(w)
  \/ BlinkWrite

\* The patterns started during construction have finished when the session
\* begins.
SpecIndicator == Init /\ [][NextIndicator]_vars

\* The process has not ended.
Running == mpc # "exited"

\* Construction followed by the session; GPIO callbacks run as soon as the
\* edge detection is registered.
NextStartup ==
  \/ SetupGpio
  \/ TestCamera
  \/ Running /\ Tick
  \/ Running /\ GpioEdge
  \/ Running /\ TestTrigger
  \/ Running /\ TestTriggerWait
  \/ Running /\ \E c \in Contexts : Callback(c)
  \/ Running /\ \E w \in Workers : Capture(w)

SpecStartup == InitStartup /\ [][NextStartup]_vars

\* The session with its 's' command, its periodic report and its shutdown.
Session ==
  \/ StatusCommand
  \/ Shutdown
  \/ OpenStatsFile
  \/ GetReadSuccessful
  \/ GetReadTotal
  \/ GetCopyStats
  \/ PrintStatus
  \/ WriteStatsFile
  \/ GpioCleanup

NextSession ==
  \/ Running /\ Tick
  \/ Running /\ GpioEdge
  \/ Running /\ TestTrigger
  \/ Running /\ TestTriggerWait
  \/ Running /\ \E c \in Contexts : Callback(c)
  \/ Running /\ \E w \in Workers : Capture(w)
  \/ Session

SpecSession == Init /\ [][NextSession]_vars

\* ----------------------------------------------------------------- claims
\* execute_capture is executing in w: it has set the latch and not yet
\* released it.
Executing(w) == wpc[w] \in {"L185", "inc_r", "inc_w", "L201", "L230"}

\* The attempt of w is dispatched and has not reached the end of its finally.
Unfinished(w) == wpc[w] \in {"L173", "L185", "inc_r", "inc_w", "L201", "L230"}

\* No callback is running and no attempt is in flight.
Quiescent ==
  /\ \A c \in Contexts : ~InCallback(c)
  /\ \A w \in Workers : ~InFlight(w)

Outcomes == stats["successful_captures"] + stats["failed_captures"]

\* C1: at most one execute_capture is executing at any time.
C1_SingleFlight == Cardinality({w \in Workers : Executing(w)}) <= 1

\* C2: the latch is true exactly from the dispatch of an attempt until the
\* attempt releases it; in particular it is true in the state in which the
\* dispatching callback has returned.
C2_LatchTracksAttempt == is_capturing <=> \E w \in Workers : Unfinished(w)

C4_BusyEdge ==
  [][\A c \in Contexts :
       /\ (cpc[c] = "L151" /\ cpc'[c] # "L151")
            => last_trigger_time' = current_time[c]
       /\ (cpc[c] = "L154" /\ is_capturing /\ cpc'[c] # "L154")
            => /\ cdelta[c] = 1
               /\ cpc'[c] = Returned(c)
               /\ UNCHANGED <<stats, is_capturing, wpc, trigger_number, used>>]_vars

\* C5: successful_captures + failed_captures never exceeds total_triggers.
C5_CountBound == Outcomes <= stats["total_triggers"]

ExpectedCounter(k) == IF k = "exit0" THEN "successful_captures" ELSE "failed_captures"

\* C7: an attempt that has reached its finally clause has incremented exactly
\* one counter exactly once, successful_captures for exit status 0 and
\* failed_captures otherwise, and that increment raised the counter by one
\* and changed no other counter.
C7_OneOutcome ==
  /\ [](\A w \in Workers :
          wpc[w] \in {"L230", "L231"}
            => incs[w] = [NoIncs EXCEPT ![ExpectedCounter(cmd[w])] = 1])
  /\ [][\A w \in Workers :
          (wpc[w] = "inc_w" /\ wpc'[w] # "inc_w")
            => stats' = [stats EXCEPT ![CounterOf(branch[w])] = @ + 1]]_vars

\* C8: every dispatched attempt reaches the end of its finally clause, the
\* step that takes it there leaves the latch false, and an accepted edge that
\* finds the latch false goes on to dispatch.
C8_AttemptEnds ==
  /\ \A w \in Workers : (wpc[w] = "L173") ~> (wpc[w] = "L231")
  /\ [][\A w \in Workers :
          (wpc[w] = "L230" /\ wpc'[w] # "L230") => ~is_capturing']_vars
  /\ [][\A c \in Contexts :
          (cpc[c] = "L154" /\ ~is_capturing /\ cpc'[c] # "L154")
            => cpc'[c] = "L161"]_vars

\* C8 witness: the attempt of the first edge timed out and has released the
\* latch, and the second edge, accepted at the deadline, has found the latch
\* false and dispatched a fresh attempt.
C8_Witness ==
  /\ \E w, v \in Workers :
       /\ wpc[w] = "L231"
       /\ branch[w] = "timeout"
       /\ wpc[v] = "L173"
  /\ ~is_capturing
  /\ last_trigger_time = StartTime + CaptureTimeout
  /\ edges = 2
  /\ accepted = 2
  /\ rejected = 0
  /\ \A c \in Contexts : ~InCallback(c)

\* C9: a command that runs past capture_timeout takes the TimeoutExpired
\* branch as soon as the deadline is reached; that branch raises
\* failed_captures by one, leaves successful_captures unchanged, and its
\* finally clause leaves the latch false.
C9_Timeout ==
  /\ [](\A w \in Workers :
          (/\ wpc[w] = "L185"
           /\ Duration(cmd[w]) > CaptureTimeout
           /\ now >= cmd_start[w] + CaptureTimeout) => ENABLED WCmdEnd(w))
  /\ [][\A w \in Workers :
          /\ (wpc[w] = "L185" /\ Duration(cmd[w]) > CaptureTimeout /\ wpc'[w] # "L185")
               => branch'[w] = "timeout"
          /\ (branch[w] = "timeout" /\ wpc[w] = "inc_w" /\ wpc'[w] # "inc_w")
               => stats' = [stats EXCEPT !["failed_captures"] = @ + 1]
          /\ (branch[w] = "timeout" /\ wpc[w] = "L230" /\ wpc'[w] # "L230")
               => ~is_capturing']_vars

\* C10: every accepted edge is allocated the next number, and the attempt it
\* dispatches runs with that number, which no earlier attempt has carried.
C10_SeqNumbers ==
  [][\A c \in Contexts :
       /\ (cpc[c] = "L152w" /\ cpc'[c] # "L152w")
            => stats'["total_triggers"] = stats["total_triggers"] + 1
       /\ (cpc[c] = "L161" /\ cpc'[c] # "L161")
            => \E w \in Workers :
                 /\ wpc[w] = "idle"
                 /\ wpc'[w] = "L173"
                 /\ trigger_number'[w] = ctmp[c] + 1
                 /\ trigger_number'[w] \notin used]_vars

\* C11: no step of any context lowers total_triggers, successful_captures or
\* failed_captures.
C11_Monotone == [][\A k \in Counters : stats'[k] >= stats[k]]_vars

\* Timestamps of the edges accepted so far that are stored in
\* last_trigger_time or held by a callback about to store them (0: none).
AcceptedTimes ==
  {last_trigger_time} \cup {current_time[c] : c \in {d \in Contexts : cpc[d] = "L151"}}

PreviousAccepted == CHOOSE t \in AcceptedTimes : \A u \in AcceptedTimes : u <= t

\* C12: the first edge is accepted, and a later edge is accepted exactly when
\* its timestamp is at least debounce_time after the timestamp of the
\* previously accepted edge.
C12_AcceptedEdges ==
  [][\A c \in Contexts :
       (cpc[c] = "L148" /\ cpc'[c] # "L148")
         => (cpc'[c] = "L151"
               <=> current_time[c] - PreviousAccepted >= DebounceTime)]_vars

\* C15: the step in which os.path.getsize raises after exit status 0 changes
\* no counter, not the latch and not the branch, and continues to the finally
\* clause; an attempt whose size read failed has stored one increment of
\* successful_captures and none of failed_captures when it is in its finally
\* clause, and its finally clause leaves the latch false.
C15_SizeFailure ==
  /\ [](\A w \in Workers :
          (file_size[w] = "raise" /\ wpc[w] \in {"L230", "L231"})
            => /\ branch[w] = "success"
               /\ incs[w] = [NoIncs EXCEPT !["successful_captures"] = 1])
  /\ [][\A w \in Workers :
          /\ (wpc[w] = "L201" /\ file_size'[w] = "raise")
               => /\ wpc'[w] = "L230"
                  /\ UNCHANGED <<stats, is_capturing, branch, incs>>
          /\ (file_size[w] = "raise" /\ wpc[w] = "L230" /\ wpc'[w] # "L230")
               => ~is_capturing']_vars

\* C15 witness: the size read of an attempt failed and the attempt has
\* released the latch.
C15_Witness ==
  \E w \in Workers :
    /\ file_size[w] = "raise"
    /\ cmd[w] = "exit0"
    /\ wpc[w] = "L231"
    /\ ~is_capturing

\* Steps of the callback that remain before it returns, at most.
StepsLeft(p) ==
  CASE p = "L148" -> 6
    [] p = "L151" -> 5
    [] p = "L152r" -> 4
    [] p = "L152w" -> 3
    [] p = "L154" -> 2
    [] p = "L161" -> 1
    [] OTHER -> 0

\* C19: a context inside the callback can always take its next step, whatever
\* the capture threads and their commands are doing; every step of the
\* callback lowers the number of steps left; and every invocation returns.
C19_CallbackReturns ==
  /\ [](\A c \in Contexts : InCallback(c) => ENABLED Callback(c))
  /\ [][\A c \in Contexts :
          (InCallback(c) /\ cpc'[c] # cpc[c])
            => StepsLeft(cpc'[c]) < StepsLeft(cpc[c])]_vars
  /\ \A c \in Contexts : (cpc[c] = "L148") ~> ~InCallback(c)

\* C19 witness: the command of the attempt dispatched by the first edge is
\* hanging before its deadline; the callback that dispatched it has returned
\* and so has the callback of a later edge, rejected as busy.
C19_Witness ==
  /\ \E w \in Workers :
       /\ wpc[w] = "L185"
       /\ cmd[w] = "hang"
       /\ now < cmd_start[w] + CaptureTimeout
  /\ \A c \in Contexts : ~InCallback(c)
  /\ edges = 2
  /\ accepted = 2
  /\ rejected = 1

\* The rate contained in dictionary d is the rate recomputed from the
\* counters contained in d.
SelfConsistent(d) ==
  d["success_rate_percent"] = SuccessRate(d["successful_captures"], d["total_triggers"])

\* C13: the dictionary returned by get_statistics, and the dictionary
\* reloaded from the persisted file, contain the success rate recomputed from
\* the total_triggers and successful_captures they contain.
C13_SnapshotConsistent ==
  /\ mpc = "ret" => SelfConsistent(snapshot)
  /\ stats_file # <<>> => SelfConsistent(Load(stats_file))

C17_ShutdownOrder ==
  /\ [](released => persisted \in {"ok", "failed"})
  /\ [](persisted = "ok" => Len(stats_file) = Len(SnapshotKeys))
  /\ [](mpc = "exited" => released)
  /\ []((shutdown # "none" /\ mpc # "exited") => ENABLED Session)
  /\ [][persisted' # persisted => (~released /\ ~released')]_vars

\* C17 witness: the loop was left by KeyboardInterrupt, writing the file
\* failed, and the pins have been released.
C17_Witness ==
  /\ shutdown = "int"
  /\ persisted = "failed"
  /\ released
  /\ mpc = "exited"

\* C16: when the status pin is absent or could not be set up, the edge
\* detection is registered once setup_gpio has returned, and an accepted edge
\* still stores its increment of total_triggers and, finding the latch
\* false, dispatches a capture attempt.
C16_StatusPinOptional ==
  /\ []((status_pin # "output" /\ mpc # "L79") => detect)
  /\ [][\A c \in Contexts :
          status_pin # "output"
            => /\ (cpc[c] = "L152w" /\ cpc'[c] # "L152w")
                    => stats'["total_triggers"] = ctmp[c] + 1
               /\ (cpc[c] = "L161" /\ cpc'[c] # "L161")
                    => \E w \in Workers : wpc[w] = "idle" /\ wpc'[w] = "L173"]_vars

\* C18: whatever the outcome of the camera check, test_camera_connection
\* returns to __init__, the main thread enters the session loop, and the
\* check changes nothing of the trigger controller; and with a camera that
\* was not detected an accepted edge stores its increment of total_triggers,
\* goes on to dispatch when it finds the latch false, and dispatches (unless
\* the write to the status pin raises, which does not depend on the camera).
C18_CameraOptional ==
  /\ [][(mpc = "L80" /\ mpc' # "L80")
          => /\ mpc' = "loop"
             /\ UNCHANGED <<shared, cbvars, wkvars, status_pin, detect>>]_vars
  /\ [][\A c \in Contexts :
          camera # "detected"
            => /\ (cpc[c] = "L152w" /\ cpc'[c] # "L152w")
                    => stats'["total_triggers"] = ctmp[c] + 1
               /\ (cpc[c] = "L154" /\ ~is_capturing /\ cpc'[c] # "L154")
                    => cpc'[c] = "L161"
               /\ (cpc[c] = "L161" /\ ~PinRaises /\ cpc'[c] # "L161")
                    => \E w \in Workers : wpc[w] = "idle" /\ wpc'[w] = "L173"]_vars

\* C18 witness: the camera check timed out, the session loop is running, and
\* the first edge has been counted and has dispatched an attempt.
C18_Witness ==
  /\ camera = "timeout"
  /\ mpc = "loop"
  /\ stats["total_triggers"] = 1
  /\ accepted = 1
  /\ \E w \in Workers : wpc[w] = "L173"

\* C20: whenever no callback is running, no attempt is dispatched and
\* unfinished and no blink thread has a write left, the status pin is low.
C20_IndicatorLow == (Quiescent /\ blink = NoBlink) => ~led

\* C20 witness: two attempts have finished, one of them a failure, all blink
\* patterns have finished and the pin is low.
C20_Witness ==
  /\ Quiescent
  /\ blink = NoBlink
  /\ finished = 2
  /\ stats["failed_captures"] >= 1
  /\ ~led

====
